---- MODULE Spec2Model ----
(***************************************************************************)
(* Live transcription bridge of vexa-bot (core/src/utils/browser.ts):      *)
(* BrowserDeepgramService (socket life cycle, reconnection, audio send,    *)
(* provider message handling), DeepgramService.pushToRedis (delivery of     *)
(* finalized segments to the Redis stream) and BrowserAudioService (media  *)
(* discovery, audio graph, resampling, session start time).                *)
(***************************************************************************)
EXTENDS Integers, Sequences, FiniteSets, TLC

\* ---------------------------------------------------------------- bounds
MaxConnect == 2      \* sockets the caller may add beyond the recovery ones
MaxFail    == 1      \* unexpected failures the environment may inject
MaxFrames  == 1      \* audio blocks handed to sendAudioData
MaxMsgs    == 2      \* provider messages received
MaxTextLen == 2      \* characters of a transcript
MaxRetry   == 12     \* reconnect attempts whose socket construction throws
MaxBlock   == 3      \* samples in an input audio block
MaxRate    == 3      \* sample rates, in units of a common base rate
MaxInit    == 2      \* initializeAudioProcessor calls
MaxElems   == 2      \* media elements passed to createCombinedAudioStream
MaxTime    == 2      \* values of Date.now()
MaxPolls   == 3      \* retries argument of findMediaElements

MaxSockets == MaxConnect + MaxFail
Sockets    == 1..MaxSockets
Null       == 0

\* WebSocket.readyState, plus NONE for a socket that was not constructed yet
NONE       == "NONE"
CONNECTING == "CONNECTING"
OPEN       == "OPEN"
CLOSING    == "CLOSING"
CLOSED     == "CLOSED"

VARIABLES
  \* BrowserDeepgramService fields
  stubbornMode,       \* constructor argument
  apiKey,             \* TRUE iff config.deepgramApiKey is set
  socket,             \* this.socket: Null or a socket
  isServerReady,      \* this.isServerReady
  currentUid,         \* this.currentUid: Null or a session id
  onMessageCallback,  \* TRUE iff the three callbacks were installed
  reconnectInterval,  \* this.reconnectInterval: Null or a timer handle
  retryCount,         \* this.retryCount
  isManualReconnect,  \* this.isManualReconnect
  \* browser runtime
  readyState,         \* readyState of every socket constructed so far
  timers,             \* timer handles pending in the event loop
  nextUid,            \* next value generateBrowserUUID returns
  \* environment budget
  failures,           \* unexpected failures injected so far
  \* audio path
  nextFrame,          \* next audio block id
  wire,               \* <<socket, block>> pairs written with socket.send
  refused,            \* blocks for which sendAudioData returned false
  audioBlock,         \* last onaudioprocess event: input, rates, resampled block
  audio,              \* BrowserAudioService fields and the audio graph they own
  find,               \* the running findMediaElements call
  \* observation of the run
  sockUid,            \* session id minted by the open event of each socket
  schedBy,            \* sockets whose error/close event created a timer
  reconfClosed,       \* sockets closed by closeForReconfigure()
  reconfMark,         \* sockets created before the closeForReconfigure() call
                      \* whose manual flag is still set; -1 without one
  guardHit,           \* the pending timer made startStubbornReconnection return on its guard
  terminalMark,       \* -1, or the number of sockets when close() returned
  needReconnect,      \* an unexpected failure is not yet recovered
  serverReady,        \* SERVER_READY events handed to the onMessage callback
  timerDelay,         \* delay (ms) passed to setTimeout for the pending timer
  openCleared,        \* an open event reset a nonzero counter and cancelled a timer
  returned,           \* what the last connectToDeepgram call resolved to (-1: no call)
  \* publish path
  pushFnDefined,      \* typeof window.vexa_pushTranscriptToRedis === 'function'
  connection,         \* DeepgramService.connection: Null or its sessionUid
  nodeClient,         \* connection.client: "null", "live" or "closed"
  redisClient,        \* DeepgramService.redisClient: "null", "open", "closed"
  transcriptCount,    \* DeepgramService.transcriptCount
  bindingCalls,       \* calls of the exposed function not yet run in Node
  xaddQueue,          \* XADD commands sent to Redis and not yet answered
  stream,             \* entries of the Redis stream, in order
  \* observation of the publish path
  received,           \* what each provider message was, in arrival order
  emitted,            \* messages handed to the onMessage callback
  pushed,             \* messages for which the publish path was invoked
  attempts,           \* XADD commands issued per message
  handledOpen,        \* pushToRedis ran for the message with Redis open
  handledClosed,      \* pushToRedis ran for the message with Redis not open
  rejected,           \* messages whose XADD was rejected
  logged              \* messages for which an error was written to a log

clientVars == <<socket, isServerReady, currentUid, onMessageCallback,
                reconnectInterval, retryCount, isManualReconnect>>
worldVars  == <<socket, isServerReady, currentUid, reconnectInterval,
                retryCount, isManualReconnect, readyState, timers, nextUid,
                sockUid, schedBy, reconfClosed, reconfMark, guardHit, needReconnect,
                serverReady, timerDelay, openCleared, returned>>
audioVars  == <<nextFrame, wire, refused, audioBlock, audio, find>>
nodeVars   == <<connection, nodeClient, redisClient, transcriptCount>>
pipeVars   == <<bindingCalls, xaddQueue, stream, attempts, handledOpen,
                handledClosed, rejected>>
msgVars    == <<received, emitted, pushed>>
logVars    == <<logged>>
pubVars    == <<pushFnDefined, nodeVars, pipeVars, msgVars, logVars>>
vars == <<stubbornMode, apiKey, socket, isServerReady, currentUid,
          onMessageCallback, reconnectInterval, retryCount,
          isManualReconnect, readyState, timers, nextUid, failures,
          nextFrame, wire, refused, audioBlock, audio, find, sockUid, schedBy, reconfClosed,
          reconfMark,
          guardHit, terminalMark, needReconnect, serverReady, timerDelay,
          openCleared, returned, pubVars>>

\* ------------------------------------------------------------- helpers
NumSockets == Cardinality({s \in Sockets : readyState[s] # NONE})
NewSocket  == NumSockets + 1
NewTimer(T) == CHOOSE t \in 1..(Cardinality(T) + 1) : t \notin T

\* ------------------------------------------------------ provider messages
MsgIds   == 1..MaxMsgs
Chars    == {" ", "a"}
Texts    == UNION {[1..n -> Chars] : n \in 0..MaxTextLen}
Channels == {"absent", "noalts", "empty", "alts"}

\* data.start and data.duration in units of half a millisecond
Offsets  == {-1, 0, 1, 2}

\* event.data of one message: json is FALSE for text JSON.parse rejects;
\* channel tells whether data.channel, channel.alternatives and a first
\* alternative exist; hasTranscript / hasStart / hasDuration tell whether
\* alternatives[0].transcript, data.start and data.duration are defined;
\* start and duration are their values (0 when undefined)
AllMessages ==
  {m \in [json : BOOLEAN, channel : Channels, hasTranscript : BOOLEAN,
          transcript : Texts, is_final : BOOLEAN, hasStart : BOOLEAN,
          hasDuration : BOOLEAN, start : Offsets, duration : Offsets] :
     /\ ~m.hasStart => m.start = 0
     /\ ~m.hasDuration => m.duration = 0}

\* the messages of the delivery pipeline: one start and one duration value
ProviderMessages ==
  {m \in AllMessages :
     /\ m.hasStart => m.start = 0
     /\ m.hasDuration => m.duration = 2
     /\ ~m.json => m.channel = "absent" /\ ~m.is_final
     /\ m.channel # "alts" => ~m.hasTranscript
     /\ ~m.hasTranscript => m.transcript = <<>>
     \* data.start is read only once a text was found
     /\ ~m.hasStart => \E i \in 1..Len(m.transcript) : m.transcript[i] # " "
     \* data.duration matters only once start.toFixed has succeeded
     /\ ~m.hasDuration =>
          m.hasStart /\ \E i \in 1..Len(m.transcript) : m.transcript[i] # " "}

\* messages with a text and a start, of every start and duration value
TimedMessages ==
  {m \in AllMessages :
     /\ m.json /\ m.channel = "alts" /\ m.hasTranscript /\ m.hasStart
     /\ m.transcript = [i \in 1..1 |-> "a"]}

\* a JavaScript number: NaN, or a value in units of half a millisecond
NaN    == [nan |-> TRUE, v |-> 0]
Num(x) == [nan |-> FALSE, v |-> x]

\* start + data.duration; undefined + number is NaN
endOf(m) == IF m.hasDuration THEN Num(m.start + m.duration) ELSE NaN

\* Number.prototype.toFixed(3): the nearest multiple of a millisecond, the one
\* farther from zero of two equally near; "NaN" for NaN.  The result is in
\* milliseconds
toFixed3(x) ==
  IF x.nan THEN NaN
  ELSE IF x.v >= 0 THEN Num((x.v + 1) \div 2)
  ELSE Num(0 - ((1 - x.v) \div 2))

\* the start and end fields of the segment object
segmentOf(m) ==
  [start |-> toFixed3(Num(m.start)), end |-> toFixed3(endOf(m))]

\* String.prototype.trim
RECURSIVE TrimStart(_)
TrimStart(t) ==
  IF t # <<>> /\ Head(t) = " " THEN TrimStart(Tail(t)) ELSE t

RECURSIVE TrimEnd(_)
TrimEnd(t) ==
  IF t # <<>> /\ t[Len(t)] = " " THEN TrimEnd(SubSeq(t, 1, Len(t) - 1)) ELSE t

trim(t) == TrimEnd(TrimStart(t))

\* what the claims call a message without text
Blank(m) ==
  \/ m.channel # "alts"
  \/ ~m.hasTranscript
  \/ \A i \in 1..Len(m.transcript) : m.transcript[i] = " "

Count(q, x) == Cardinality({i \in 1..Len(q) : q[i] = x})

\* The fields a handler reads and writes, gathered so that handlers compose.
World ==
  [socket |-> socket, isServerReady |-> isServerReady,
   currentUid |-> currentUid, reconnectInterval |-> reconnectInterval,
   retryCount |-> retryCount, isManualReconnect |-> isManualReconnect,
   readyState |-> readyState, timers |-> timers, nextUid |-> nextUid,
   sockUid |-> sockUid, schedBy |-> schedBy, reconfClosed |-> reconfClosed,
   reconfMark |-> reconfMark,
   guardHit |-> guardHit, needReconnect |-> needReconnect,
   serverReady |-> serverReady, timerDelay |-> timerDelay,
   openCleared |-> openCleared, returned |-> returned]

isOpenIn(w) == w.socket # Null /\ w.readyState[w.socket] = OPEN
isOpen      == isOpenIn(World)
isReady     == isServerReady
getCurrentUid == currentUid

Commit(w) ==
  /\ socket' = w.socket
  /\ isServerReady' = w.isServerReady
  /\ currentUid' = w.currentUid
  /\ reconnectInterval' = w.reconnectInterval
  /\ retryCount' = w.retryCount
  /\ isManualReconnect' = w.isManualReconnect
  /\ readyState' = w.readyState
  /\ timers' = w.timers
  /\ nextUid' = w.nextUid
  /\ sockUid' = w.sockUid
  /\ schedBy' = w.schedBy
  /\ reconfClosed' = w.reconfClosed
  /\ reconfMark' = (IF w.isManualReconnect THEN w.reconfMark ELSE -1)
  /\ guardHit' = (w.guardHit /\ w.timers # {})
  /\ needReconnect' = (w.needReconnect /\ ~(isOpenIn(w) /\ w.isServerReady))
  /\ serverReady' = w.serverReady
  /\ timerDelay' = (IF w.timers = {} THEN 0 ELSE w.timerDelay)
  /\ openCleared' = w.openCleared
  /\ returned' = w.returned

\* ------------------------------------------- BrowserDeepgramService code
clearReconnectInterval(w) ==
  IF w.reconnectInterval # Null
  THEN [w EXCEPT !.timers = @ \ {w.reconnectInterval},
                 !.reconnectInterval = Null]
  ELSE w

\* private retryDelayMs: number = 2000
retryDelayMs == 2000

RECURSIVE Pow(_, _)
Pow(b, e) == IF e = 0 THEN 1 ELSE b * Pow(b, e - 1)

Min(a, b) == IF a <= b THEN a ELSE b

\* Math.min(retryDelayMs * Math.pow(1.5, Math.min(retryCount, 10)), 10000),
\* with 1.5^k kept as the exact fraction 3^k / 2^k (every power used is
\* exact in binary floating point); the quotient is taken only where the
\* product is below the cap
Delay_NoMax(n) ==
  LET k == Min(n, 10)
  IN  (retryDelayMs * Pow(3, k)) \div Pow(2, k)

Delay(n) ==
  LET k   == Min(n, 10)
      num == retryDelayMs * Pow(3, k)
      den == Pow(2, k)
  IN  IF num >= 10000 * den THEN 10000 ELSE num \div den

\* by: the socket whose event asked for the reconnect (Null: a failed
\* construction)
startStubbornReconnection_NoGuard(w, by) ==
  LET t == NewTimer(w.timers)
  IN  [w EXCEPT !.timers = @ \cup {t}, !.reconnectInterval = t,
                !.schedBy = @ \cup {by}, !.timerDelay = Delay(w.retryCount)]

startStubbornReconnection(w, by) ==
  IF w.reconnectInterval # Null
  THEN [w EXCEPT !.guardHit = TRUE]
  ELSE LET t == NewTimer(w.timers)
       IN  [w EXCEPT !.timers = @ \cup {t}, !.reconnectInterval = t,
                     !.schedBy = @ \cup {by},
                     !.timerDelay = Delay(w.retryCount)]

\* new WebSocket(...) succeeded (ok) or the try block threw
attemptConnection(w, ok) ==
  IF ok
  THEN LET s == Cardinality({x \in Sockets : w.readyState[x] # NONE}) + 1
       IN  [w EXCEPT !.socket = s, !.readyState[s] = CONNECTING]
  ELSE startStubbornReconnection([w EXCEPT !.needReconnect = TRUE], Null)

simpleConnection_Reconnect(w, ok) == attemptConnection(w, ok)

simpleConnection(w, ok) ==
  IF ok
  THEN LET s == Cardinality({x \in Sockets : w.readyState[x] # NONE}) + 1
       IN  [w EXCEPT !.socket = s, !.readyState[s] = CONNECTING]
  ELSE w

\* body of connectToDeepgram once the callbacks are stored; the promise
\* resolves to the new socket, or to null without an API key or when the
\* construction threw
connectToDeepgram(w, ok) ==
  IF ~apiKey
  THEN [w EXCEPT !.returned = Null]
  ELSE LET w1 == IF stubbornMode THEN attemptConnection(w, ok)
                                 ELSE simpleConnection(w, ok)
       IN  [w1 EXCEPT !.returned = IF ok THEN w1.socket ELSE Null]

\* this.onMessageCallback({ message: 'SERVER_READY', ... }) in the open
\* handler of socket s; the consumer sees isReady() and getCurrentUid() as
\* they are at that point of the handler
notifyServerReady(w, s) ==
  IF onMessageCallback
  THEN [w EXCEPT !.serverReady =
          Append(@, [sock |-> s, isReady |-> w.isServerReady,
                     uid |-> w.currentUid])]
  ELSE w

\* generateBrowserUUID(): a value no earlier call returned
generateBrowserUUID(w) == w.nextUid

onopen_NotifyFirst(w, s) ==
  LET w1 == notifyServerReady(w, s)
      w2 == IF stubbornMode
            THEN clearReconnectInterval([w1 EXCEPT !.retryCount = 0])
            ELSE w1
  IN  [w2 EXCEPT !.isServerReady = TRUE, !.currentUid = generateBrowserUUID(w),
                 !.nextUid = @ + 1, !.sockUid[s] = generateBrowserUUID(w)]

onopen_NoReset(w, s) ==
  notifyServerReady([w EXCEPT !.isServerReady = TRUE,
                              !.currentUid = generateBrowserUUID(w),
                              !.nextUid = @ + 1,
                              !.sockUid[s] = generateBrowserUUID(w)], s)

onopen(w, s) ==
  IF stubbornMode
  THEN LET w0 == [w EXCEPT !.openCleared =
                     @ \/ (w.retryCount > 0 /\ w.reconnectInterval # Null)]
           w1 == clearReconnectInterval([w0 EXCEPT !.retryCount = 0])
           w2 == [w1 EXCEPT !.isServerReady = TRUE,
                            !.currentUid = generateBrowserUUID(w),
                            !.nextUid = @ + 1,
                            !.sockUid[s] = generateBrowserUUID(w)]
       IN  notifyServerReady(w2, s)
  ELSE LET w1 == [w EXCEPT !.currentUid = generateBrowserUUID(w),
                           !.nextUid = @ + 1,
                           !.sockUid[s] = generateBrowserUUID(w)]
       IN  notifyServerReady([w1 EXCEPT !.isServerReady = TRUE], s)

onerror(w, s) ==
  IF stubbornMode /\ ~w.isManualReconnect
  THEN startStubbornReconnection(w, s)
  ELSE w

onclose(w, s) ==
  IF stubbornMode
  THEN LET w1 == [w EXCEPT !.isServerReady = FALSE, !.socket = Null]
       IN  IF ~w1.isManualReconnect
           THEN startStubbornReconnection(w1, s)
           ELSE [w1 EXCEPT !.isManualReconnect = FALSE]
  ELSE w

\* socket.close() of the browser: starts the closing handshake
socketClose(rs, s) ==
  IF rs[s] \in {CONNECTING, OPEN} THEN [rs EXCEPT ![s] = CLOSING] ELSE rs

close(w) ==
  LET w1 == [clearReconnectInterval(w) EXCEPT !.currentUid = Null]
  IN  IF w1.socket # Null
      THEN [w1 EXCEPT !.readyState = socketClose(@, w1.socket),
                      !.socket = Null]
      ELSE w1

closeForReconfigure(w) ==
  LET live == IF w.socket # Null /\ w.readyState[w.socket] \in {CONNECTING, OPEN}
              THEN {w.socket} ELSE {}
  IN  close([w EXCEPT !.isManualReconnect = TRUE,
                      !.reconfClosed = @ \cup live,
                      !.reconfMark =
                         Cardinality({x \in Sockets : w.readyState[x] # NONE})])

\* sendAudioData: TRUE iff the block is written to the socket
sendAudioData_NoStateCheck(sock, rs) == sock # Null

sendAudioData(sock, rs) == ~(sock = Null \/ rs[sock] # OPEN)

\* body of the setTimeout callback of startStubbornReconnection
reconnectTimer(w, t, ok) ==
  LET w1 == [w EXCEPT !.timers = @ \ {t}, !.reconnectInterval = Null,
                      !.retryCount = @ + 1]
  IN  IF ~isOpenIn(w1) THEN attemptConnection(w1, ok) ELSE w1

\* --------------------------------------------------------------- actions
Init ==
  /\ stubbornMode \in BOOLEAN
  /\ apiKey \in BOOLEAN
  /\ socket = Null
  /\ isServerReady = FALSE
  /\ currentUid = Null
  /\ onMessageCallback = FALSE
  /\ reconnectInterval = Null
  /\ retryCount = 0
  /\ isManualReconnect = FALSE
  /\ readyState = [s \in Sockets |-> NONE]
  /\ timers = {}
  /\ nextUid = 1
  /\ failures = 0
  /\ nextFrame = 1
  /\ wire = {}
  /\ refused = {}
  /\ audioBlock = [inputData |-> <<>>, sourceSampleRate |-> 0,
                   targetSampleRate |-> 0, resampledData |-> <<>>,
                   startTime |-> Null]
  /\ audio = [processor |-> FALSE, audioContext |-> "null",
              destinationNode |-> FALSE, sources |-> FALSE, graphs |-> 0,
              inits |-> 0, closeCalls |-> 0, onClosed |-> FALSE,
              sessionAudioStartTimeMs |-> Null, onaudioprocess |-> FALSE,
              threw |-> FALSE, now |-> 1]
  /\ find = [pc |-> "idle", retries |-> 0, i |-> 0, polls |-> 0, waits |-> 0,
             active |-> 0, result |-> 0]
  /\ sockUid = [s \in Sockets |-> Null]
  /\ schedBy = {}
  /\ reconfClosed = {}
  /\ reconfMark = -1
  /\ guardHit = FALSE
  /\ terminalMark = -1
  /\ needReconnect = FALSE
  /\ serverReady = <<>>
  /\ timerDelay = 0
  /\ openCleared = FALSE
  /\ returned = -1
  /\ pushFnDefined \in BOOLEAN
  /\ connection = Null
  /\ nodeClient = "null"
  /\ redisClient = "null"
  /\ transcriptCount = 0
  /\ bindingCalls = <<>>
  /\ xaddQueue = <<>>
  /\ stream = <<>>
  /\ received = <<>>
  /\ emitted = {}
  /\ pushed = {}
  /\ attempts = [i \in MsgIds |-> 0]
  /\ handledOpen = {}
  /\ handledClosed = {}
  /\ rejected = {}
  /\ logged = {}

\* connectToDeepgram(botConfigData, onMessage, onError, onClose)
ConnectToDeepgram(ok) ==
  /\ onMessageCallback' = TRUE
  /\ terminalMark' = -1
  /\ IF ~apiKey
     THEN ok /\ UNCHANGED failures
     ELSE IF ok THEN NumSockets < MaxSockets /\ UNCHANGED failures
                ELSE failures < MaxFail /\ failures' = failures + 1
  /\ Commit(connectToDeepgram(World, ok))
  /\ UNCHANGED <<pubVars, stubbornMode, apiKey, audioVars>>

Close ==
  /\ Commit(close(World))
  /\ terminalMark' = NumSockets
  /\ UNCHANGED <<pubVars, stubbornMode, apiKey, onMessageCallback, failures, audioVars>>

CloseForReconfigure ==
  /\ Commit(closeForReconfigure(World))
  /\ UNCHANGED <<pubVars, stubbornMode, apiKey, onMessageCallback, failures,
                 audioVars, terminalMark>>

SetServerReady(ready) ==
  /\ isServerReady # ready
  /\ Commit([World EXCEPT !.isServerReady = ready])
  /\ UNCHANGED <<pubVars, stubbornMode, apiKey, onMessageCallback, failures,
                 audioVars, terminalMark>>

\* the socket's open event
SocketOpen(s) ==
  /\ readyState[s] = CONNECTING
  /\ Commit(onopen([World EXCEPT !.readyState[s] = OPEN], s))
  /\ UNCHANGED <<pubVars, stubbornMode, apiKey, onMessageCallback, failures,
                 audioVars, terminalMark>>

\* the connection fails: error event, then close event, in one task
SocketFail(s) ==
  /\ readyState[s] \in {CONNECTING, OPEN}
  /\ failures < MaxFail
  /\ failures' = failures + 1
  /\ Commit(onclose(onerror([World EXCEPT !.readyState[s] = CLOSED,
                                          !.needReconnect = TRUE], s), s))
  /\ UNCHANGED <<pubVars, stubbornMode, apiKey, onMessageCallback, audioVars,
                 terminalMark>>

\* the provider closes an open connection cleanly: close event only
SocketServerClose(s) ==
  /\ readyState[s] = OPEN
  /\ failures < MaxFail
  /\ failures' = failures + 1
  /\ Commit(onclose([World EXCEPT !.readyState[s] = CLOSED,
                                  !.needReconnect = TRUE], s))
  /\ UNCHANGED <<pubVars, stubbornMode, apiKey, onMessageCallback, audioVars,
                 terminalMark>>

\* end of a closing handshake started by socket.close(); a socket closed
\* before it opened, or whose handshake fails, fires error before close
SocketClosed(s, withError) ==
  /\ readyState[s] = CLOSING
  /\ sockUid[s] = Null => withError
  /\ LET w0 == [World EXCEPT !.readyState[s] = CLOSED]
     IN  Commit(onclose(IF withError THEN onerror(w0, s) ELSE w0, s))
  /\ UNCHANGED <<pubVars, stubbornMode, apiKey, onMessageCallback, failures,
                 audioVars, terminalMark>>

\* the reconnect timer fires
TimerFire(t, ok) ==
  /\ t \in timers
  /\ isOpen => ok
  /\ ~isOpen => IF ok THEN NumSockets < MaxSockets /\ UNCHANGED failures
                      ELSE failures < MaxFail /\ failures' = failures + 1
  /\ isOpen => UNCHANGED failures
  /\ Commit(reconnectTimer(World, t, ok))
  /\ UNCHANGED <<pubVars, stubbornMode, apiKey, onMessageCallback, audioVars,
                 terminalMark>>

\* sendAudioData(audioData): one audio block from the audio callback
SendAudioData ==
  /\ nextFrame <= MaxFrames
  /\ nextFrame' = nextFrame + 1
  /\ IF sendAudioData(socket, readyState)
     THEN wire' = wire \cup {<<socket, nextFrame>>} /\ UNCHANGED refused
     ELSE refused' = refused \cup {nextFrame} /\ UNCHANGED wire
  /\ UNCHANGED <<pubVars, stubbornMode, apiKey, onMessageCallback, worldVars,
                 failures, terminalMark, audioBlock, audio, find>>

Next ==
  \/ \E ok \in BOOLEAN : ConnectToDeepgram(ok)
  \/ Close
  \/ CloseForReconfigure
  \/ \E b \in BOOLEAN : SetServerReady(b)
  \/ \E s \in Sockets : SocketOpen(s)
  \/ \E s \in Sockets : SocketFail(s)
  \/ \E s \in Sockets : SocketServerClose(s)
  \/ \E s \in Sockets, e \in BOOLEAN : SocketClosed(s, e)
  \/ \E t \in timers, ok \in BOOLEAN : TimerFire(t, ok)
  \/ SendAudioData

Spec == Init /\ [][Next]_vars

\* the caller never invokes setServerReady
NextNoSet ==
  \/ \E ok \in BOOLEAN : ConnectToDeepgram(ok)
  \/ Close
  \/ CloseForReconfigure
  \/ \E s \in Sockets : SocketOpen(s)
  \/ \E s \in Sockets : SocketFail(s)
  \/ \E s \in Sockets : SocketServerClose(s)
  \/ \E s \in Sockets, e \in BOOLEAN : SocketClosed(s, e)
  \/ \E t \in timers, ok \in BOOLEAN : TimerFire(t, ok)
  \/ SendAudioData

NoSetSpec == Init /\ [][NextNoSet]_vars

\* ------------------------------------------- message handling and publish
\* what a handler run did: called onMessage, called the publish function,
\* wrote an error to the log
Dropped == [emit |-> FALSE, push |-> FALSE, log |-> FALSE]  \* plain return
Caught  == [emit |-> FALSE, push |-> FALSE, log |-> TRUE]   \* catch block

\* body of socket.onmessage, the same in simpleConnection and
\* attemptConnection.  hasCb: this.onMessageCallback is set; cbThrows: the
\* callback raises; pushFn: the exposed publish function exists
onmessage_PushAll(m, hasCb, cbThrows, pushFn) ==
  IF ~m.json \/ m.channel # "alts" THEN Dropped
  ELSE IF ~m.hasTranscript \/ m.transcript = <<>>
          \/ trim(m.transcript) = <<>> \/ ~m.hasStart THEN Dropped
  ELSE IF hasCb /\ cbThrows THEN [emit |-> TRUE, push |-> FALSE, log |-> TRUE]
  ELSE [emit |-> hasCb, push |-> pushFn, log |-> FALSE]

onmessage_NoTrim(m, hasCb, cbThrows, pushFn) ==
  IF ~m.json \/ m.channel # "alts" THEN Dropped
  ELSE IF ~m.hasTranscript \/ m.transcript = <<>> \/ ~m.hasStart THEN Dropped
  ELSE IF hasCb /\ cbThrows THEN [emit |-> TRUE, push |-> FALSE, log |-> TRUE]
  ELSE [emit |-> hasCb, push |-> m.is_final /\ pushFn, log |-> FALSE]

\* data.duration is only added to start: when it is undefined, end is NaN
\* and end.toFixed(3) is the string "NaN", so nothing throws and no branch
\* below depends on m.hasDuration
onmessage(m, hasCb, cbThrows, pushFn) ==
  IF ~m.json THEN Caught                       \* JSON.parse throws
  ELSE IF m.channel # "alts" THEN Dropped
  ELSE IF ~m.hasTranscript \/ m.transcript = <<>>
          \/ trim(m.transcript) = <<>> THEN Dropped
  ELSE IF ~m.hasStart THEN Caught              \* start.toFixed throws
  ELSE IF hasCb /\ cbThrows THEN [emit |-> TRUE, push |-> FALSE, log |-> TRUE]
  ELSE [emit |-> hasCb, push |-> m.is_final /\ pushFn, log |-> FALSE]

\* Transcript handler of DeepgramService.connectToDeepgram
transcriptHandler(m, cbThrows) ==
  IF m.channel # "alts" THEN Dropped
  ELSE IF ~m.hasTranscript \/ m.transcript = <<>>
          \/ trim(m.transcript) = <<>> THEN Dropped
  ELSE IF ~m.hasStart THEN Caught
  ELSE IF cbThrows THEN [emit |-> TRUE, push |-> FALSE, log |-> TRUE]
  ELSE [emit |-> TRUE, push |-> m.is_final, log |-> FALSE]

\* DeepgramService.pushToRedis up to the XADD: "skip" (client missing or not
\* open), "throw" (no connection to read sessionUid from) or "xadd"
pushToRedis_Inverted(redis, conn) ==
  IF redis = "open" THEN "skip"
  ELSE IF conn = Null THEN "throw" ELSE "xadd"

pushToRedis(redis, conn) ==
  IF redis # "open" THEN "skip"
  ELSE IF conn = Null THEN "throw" ELSE "xadd"

\* redisClient.xAdd: the command joins the client's command queue
issueXAdd_Front(q, id) == <<id>> \o q

issueXAdd(q, id) == Append(q, id)

\* the catch block of a rejected XADD: log and drop
xAddRejected_Retry(q) == Append(Tail(q), Head(q))

xAddRejected_DropAll(q) == <<>>

xAddRejected(q) == Tail(q)

\* the payload cannot be parsed, or lacks a field a segment is built from
\* (channel, alternatives, transcript, start, duration); an empty or
\* whitespace transcript is a well-formed message without text
Malformed(m) ==
  \/ ~m.json
  \/ m.channel # "alts"
  \/ ~m.hasTranscript
  \/ ~Blank(m) /\ (~m.hasStart \/ ~m.hasDuration)

\* what is kept of a received message: where it arrived, whether it is
\* final, without text, malformed, and complete enough to build a segment
\* from; start and end of the segment object the handler builds
MsgRecord(m, src) ==
  [src |-> src, final |-> m.is_final, blank |-> Blank(m),
   malformed |-> Malformed(m),
   segment |-> m.json /\ ~Blank(m) /\ m.hasStart /\ m.hasDuration,
   start |-> IF m.json /\ m.channel = "alts" /\ ~Blank(m) /\ m.hasStart
             THEN segmentOf(m).start ELSE Num(0),
   end |-> IF m.json /\ m.channel = "alts" /\ ~Blank(m) /\ m.hasStart
           THEN segmentOf(m).end ELSE Num(0)]

\* pushToRedis(segment, botConfig) called for message id
PushToRedis(id) ==
  LET r == pushToRedis(redisClient, connection)
  IN  /\ transcriptCount' = IF r = "skip" THEN transcriptCount
                                          ELSE transcriptCount + 1
      /\ xaddQueue' = IF r = "xadd" THEN issueXAdd(xaddQueue, id) ELSE xaddQueue
      /\ attempts' = IF r = "xadd" THEN [attempts EXCEPT ![id] = @ + 1]
                                   ELSE attempts
      /\ handledOpen' = IF redisClient = "open" THEN handledOpen \cup {id}
                                                ELSE handledOpen
      /\ handledClosed' = IF redisClient = "open" THEN handledClosed
                                                  ELSE handledClosed \cup {id}
      /\ logged' = IF r = "throw" THEN logged \cup {id} ELSE logged
      /\ UNCHANGED <<stream, rejected>>

lifeVars == <<stubbornMode, apiKey, onMessageCallback, worldVars, failures,
              audioVars, terminalMark>>

\* a message event of an open socket
SocketMessage(s, m, cbThrows) ==
  /\ readyState[s] = OPEN
  /\ cbThrows => MsgRecord(m, s).segment
  /\ Len(received) < MaxMsgs
  /\ LET id == Len(received) + 1
         r  == onmessage(m, onMessageCallback, cbThrows, pushFnDefined)
     IN  /\ received' = Append(received, MsgRecord(m, s))
         /\ emitted' = IF r.emit THEN emitted \cup {[id |-> id, uid |-> currentUid]}
                                 ELSE emitted
         /\ pushed' = IF r.push THEN pushed \cup {id} ELSE pushed
         /\ bindingCalls' = IF r.push THEN Append(bindingCalls, id)
                                      ELSE bindingCalls
         /\ logged' = IF r.log THEN logged \cup {id} ELSE logged
  /\ UNCHANGED <<lifeVars, pushFnDefined, nodeVars, xaddQueue, stream,
                 attempts, handledOpen, handledClosed, rejected>>

\* the exposed vexa_pushTranscriptToRedis runs in Node for the oldest call
ExposedPush ==
  /\ bindingCalls # <<>>
  /\ bindingCalls' = Tail(bindingCalls)
  /\ PushToRedis(Head(bindingCalls))
  /\ UNCHANGED <<lifeVars, pushFnDefined, connection, nodeClient, redisClient,
                 msgVars>>

\* Redis answers the oldest XADD: the entry is appended to the stream
XAddOk ==
  /\ xaddQueue # <<>>
  /\ stream' = Append(stream, Head(xaddQueue))
  /\ xaddQueue' = Tail(xaddQueue)
  /\ UNCHANGED <<lifeVars, pushFnDefined, nodeVars, msgVars, bindingCalls,
                 attempts, handledOpen, handledClosed, rejected, logVars>>

\* the oldest XADD is rejected
XAddFail ==
  /\ xaddQueue # <<>>
  /\ rejected' = rejected \cup {Head(xaddQueue)}
  /\ logged' = logged \cup {Head(xaddQueue)}
  /\ xaddQueue' = xAddRejected(xaddQueue)
  /\ UNCHANGED <<lifeVars, pushFnDefined, nodeVars, msgVars, bindingCalls,
                 stream, attempts, handledOpen, handledClosed>>

\* DeepgramService.initialize(); redisOk: redisClient.connect() resolved
NodeInitialize(redisOk) ==
  /\ apiKey
  /\ connection = Null
  /\ connection' = nextUid
  /\ redisClient' = IF redisOk THEN "open" ELSE "closed"
  /\ Commit([World EXCEPT !.nextUid = @ + 1])
  /\ UNCHANGED <<stubbornMode, apiKey, onMessageCallback, failures, audioVars,
                 terminalMark, pushFnDefined, nodeClient, transcriptCount,
                 pipeVars, msgVars, logVars>>

\* DeepgramService.connectToDeepgram, called after initialize()
NodeConnectToDeepgram ==
  /\ apiKey
  /\ connection # Null
  /\ nodeClient = "null"
  /\ nodeClient' = "live"
  /\ UNCHANGED <<lifeVars, pushFnDefined, connection, redisClient,
                 transcriptCount, pipeVars, msgVars, logVars>>

\* a Transcript event of the Node live connection
NodeTranscript(m, cbThrows) ==
  /\ nodeClient = "live"
  /\ m.json
  /\ cbThrows => MsgRecord(m, Null).segment
  /\ Len(received) < MaxMsgs
  /\ LET id == Len(received) + 1
         r  == transcriptHandler(m, cbThrows)
     IN  /\ received' = Append(received, MsgRecord(m, Null))
         /\ emitted' = IF r.emit THEN emitted \cup {[id |-> id, uid |-> connection]}
                                 ELSE emitted
         /\ pushed' = IF r.push THEN pushed \cup {id} ELSE pushed
         /\ IF r.push
            THEN PushToRedis(id)
            ELSE /\ logged' = IF r.log THEN logged \cup {id} ELSE logged
                 /\ UNCHANGED <<transcriptCount, xaddQueue, stream, attempts,
                                handledOpen, handledClosed, rejected>>
  /\ UNCHANGED <<lifeVars, pushFnDefined, connection, nodeClient, redisClient,
                 bindingCalls>>

\* DeepgramService.cleanup(); it throws on connection.client.close() when
\* connectToDeepgram never assigned the client
Cleanup ==
  /\ connection # Null
  /\ nodeClient = "live"
  /\ nodeClient' = "closed"
  /\ redisClient' = IF redisClient = "open" THEN "closed" ELSE redisClient
  /\ UNCHANGED <<lifeVars, pushFnDefined, connection, transcriptCount,
                 pipeVars, msgVars, logVars>>

\* the caller connects once; later sockets come from the reconnect timer
PubConnect(ok) == NumSockets = 0 /\ ~onMessageCallback /\ ConnectToDeepgram(ok)

NextPub ==
  \/ \E ok \in BOOLEAN : PubConnect(ok)
  \/ \E s \in Sockets : SocketOpen(s)
  \/ \E s \in Sockets : SocketFail(s)
  \/ \E t \in timers, ok \in BOOLEAN : TimerFire(t, ok)
  \/ \E s \in Sockets, m \in ProviderMessages, c \in BOOLEAN :
        SocketMessage(s, m, c)
  \/ ExposedPush
  \/ XAddOk
  \/ XAddFail
  \/ \E ok \in BOOLEAN : NodeInitialize(ok)
  \/ NodeConnectToDeepgram
  \/ \E m \in ProviderMessages, c \in BOOLEAN : NodeTranscript(m, c)
  \/ Cleanup

PubSpec == Init /\ [][NextPub]_vars

\* ------------------------------------------------------- segment offsets
\* an open socket delivers messages of every start and duration value
NextSegment ==
  \/ \E ok \in BOOLEAN : PubConnect(ok)
  \/ \E s \in Sockets : SocketOpen(s)
  \/ \E s \in Sockets, m \in TimedMessages, c \in BOOLEAN :
        SocketMessage(s, m, c)

SegmentSpec == Init /\ [][NextSegment]_vars

\* ----------------------------------------------------------- session ids
\* messages a segment is built from, with a one-letter text
SegmentMessages ==
  {m \in ProviderMessages :
     MsgRecord(m, Null).segment /\ m.transcript = [i \in 1..1 |-> "a"]}

\* the caller connects, closes and connects again while sockets open,
\* deliver segments and close
NextSession ==
  \/ \E ok \in BOOLEAN : ConnectToDeepgram(ok)
  \/ Close
  \/ \E s \in Sockets : SocketOpen(s)
  \/ \E s \in Sockets, e \in BOOLEAN : SocketClosed(s, e)
  \/ \E s \in Sockets, m \in SegmentMessages : SocketMessage(s, m, FALSE)

SessionSpec == Init /\ [][NextSession]_vars

\* ------------------------------------------------ recovery (resilient mode)
\* socket ids still free once every failure that may yet come is recovered
SpareIds == MaxSockets - NumSockets - (MaxFail - failures)
            - (IF timers # {} THEN 1 ELSE 0)

LiveConnect(ok) == (apiKey /\ ok => SpareIds >= 1) /\ ConnectToDeepgram(ok)

NextLive ==
  \/ \E ok \in BOOLEAN : LiveConnect(ok)
  \/ \E s \in Sockets : SocketOpen(s)
  \/ \E s \in Sockets : SocketFail(s)
  \/ \E s \in Sockets : SocketServerClose(s)
  \/ \E t \in timers, ok \in BOOLEAN : TimerFire(t, ok)
  \/ SendAudioData

\* The caller only connects (no close(), closeForReconfigure() or
\* setServerReady()); timers fire and a connecting socket that is not failed
\* opens.
LiveSpec ==
  /\ Init /\ [][NextLive]_vars
  /\ WF_vars(\E t \in timers, ok \in BOOLEAN : TimerFire(t, ok))
  /\ \A s \in Sockets : WF_vars(SocketOpen(s))

\* ------------------------------------------------- BrowserAudioService
\* Fields of the record audio:
\*   processor               this.processor is set
\*   audioContext            "null", or the state of this.audioContext
\*   destinationNode         this.destinationNode is set
\*   sources                 a media source node is connected to the destination
\*   graphs                  recorder graphs built and not disconnected
\*   inits                   initializeAudioProcessor calls so far
\*   closeCalls              audioContext.close() calls so far
\*   onClosed                a graph was built on a closed audio context
\*   sessionAudioStartTimeMs processor.sessionAudioStartTimeMs
\*   onaudioprocess          a recorder carries the onaudioprocess handler
\*   threw                   the last call raised
\*   now                     Date.now()

\* if (!this.audioContext) ...; if (!this.destinationNode) ...
ensureContext(a) ==
  [a EXCEPT !.audioContext = IF @ = "null" THEN "running" ELSE @,
            !.destinationNode = TRUE]

\* n media elements, k of which yield a connectable audio stream
createCombinedAudioStream(a, n, k) ==
  IF n = 0 THEN [a EXCEPT !.threw = TRUE]
  ELSE LET a1 == ensureContext(a)
       IN  IF k = 0 THEN [a1 EXCEPT !.threw = TRUE]
           ELSE [a1 EXCEPT !.sources = TRUE,
                           !.onClosed = @ \/ a1.audioContext = "closed",
                           !.threw = FALSE]

initializeAudioProcessor(a) ==
  LET a1 == ensureContext(a)
  IN  [a1 EXCEPT !.processor = TRUE, !.graphs = @ + 1, !.inits = @ + 1,
                 !.sessionAudioStartTimeMs = Null,
                 !.onClosed = @ \/ a1.audioContext = "closed",
                 !.threw = FALSE]

setupAudioDataProcessor(a) ==
  IF ~a.processor THEN [a EXCEPT !.threw = TRUE]
  ELSE [a EXCEPT !.onaudioprocess = TRUE, !.threw = FALSE]

getSessionAudioStartTime(a) ==
  IF a.processor THEN a.sessionAudioStartTimeMs ELSE Null

resetSessionStartTime(a) ==
  IF a.processor
  THEN [a EXCEPT !.sessionAudioStartTimeMs = Null, !.threw = FALSE]
  ELSE [a EXCEPT !.threw = FALSE]

disconnect_KeepProcessor(a) ==
  IF a.processor
  THEN [a EXCEPT !.graphs = IF @ > 0 THEN @ - 1 ELSE 0,
                 !.audioContext = "closed", !.closeCalls = @ + 1,
                 !.threw = FALSE]
  ELSE [a EXCEPT !.threw = FALSE]

\* the try block disconnects recorder, mediaStream and gainNode and closes
\* processor.audioContext, which is this.audioContext
disconnect(a) ==
  IF a.processor
  THEN [a EXCEPT !.graphs = @ - 1, !.audioContext = "closed",
                 !.closeCalls = @ + 1, !.processor = FALSE,
                 !.sessionAudioStartTimeMs = Null, !.threw = FALSE]
  ELSE [a EXCEPT !.threw = FALSE]

nonAudio == <<pubVars, stubbornMode, apiKey, onMessageCallback, worldVars,
              failures, terminalMark, nextFrame, wire, refused, find>>

CreateCombinedAudioStream(n, k) ==
  /\ audio' = createCombinedAudioStream(audio, n, k)
  /\ UNCHANGED <<nonAudio, audioBlock>>

InitializeAudioProcessor ==
  /\ audio.inits < MaxInit
  /\ audio' = initializeAudioProcessor(audio)
  /\ UNCHANGED <<nonAudio, audioBlock>>

SetupAudioDataProcessor ==
  /\ audio' = setupAudioDataProcessor(audio)
  /\ UNCHANGED <<nonAudio, audioBlock>>

ResetSessionStartTime ==
  /\ audio' = resetSessionStartTime(audio)
  /\ UNCHANGED <<nonAudio, audioBlock>>

Disconnect ==
  /\ audio' = disconnect(audio)
  /\ UNCHANGED <<nonAudio, audioBlock>>

\* time passes
Tick ==
  /\ audio.now < MaxTime
  /\ audio' = [audio EXCEPT !.now = @ + 1]
  /\ UNCHANGED <<nonAudio, audioBlock>>

\* ------------------------------------------------------------ resampling
\* sample values: silence and one other level
Samples == {0, 1}
Rates   == 1..MaxRate
Blocks  == UNION {[1..n -> Samples] : n \in 1..MaxBlock}

\* Math.round of the non-negative quotient a / b: halves round up
Round(a, b) == (2 * a + b) \div (2 * b)

\* a Float32Array read and written by index from 0; a write outside
\* 0..length-1 is ignored.  A sample is a fraction <<numerator, denominator>>
SetAt(arr, idx, v) ==
  IF idx >= 0 /\ idx < Len(arr) THEN [arr EXCEPT ![idx + 1] = v] ELSE arr

\* loop body of resampleAudioData for output index i, targetLength m >= 3:
\* index = i * (n - 1) / (m - 1), linear interpolation between the floor and
\* ceiling input samples
Interpolate(inputData, m, i) ==
  LET n          == Len(inputData)
      leftIndex  == (i * (n - 1)) \div (m - 1)
      rem        == (i * (n - 1)) % (m - 1)
      rightIndex == IF rem = 0 THEN leftIndex ELSE leftIndex + 1
      l          == inputData[leftIndex + 1]
      r          == inputData[rightIndex + 1]
  IN  <<l * (m - 1) + (r - l) * rem, m - 1>>

resampleAudioData_FirstLast(inputData, sourceSampleRate, targetSampleRate) ==
  LET n  == Len(inputData)
      m  == Round(n * targetSampleRate, sourceSampleRate)
      a0 == [i \in 1..m |-> <<0, 1>>]
      a1 == SetAt(a0, m - 1, <<inputData[n], 1>>)
      a2 == SetAt(a1, 0, <<inputData[1], 1>>)
  IN  [i \in 1..m |-> IF 1 < i /\ i < m THEN Interpolate(inputData, m, i - 1)
                                         ELSE a2[i]]

resampleAudioData(inputData, sourceSampleRate, targetSampleRate) ==
  LET n  == Len(inputData)
      m  == Round(n * targetSampleRate, sourceSampleRate)
      a0 == [i \in 1..m |-> <<0, 1>>]
      a1 == SetAt(a0, 0, <<inputData[1], 1>>)
      a2 == SetAt(a1, m - 1, <<inputData[n], 1>>)
  IN  [i \in 1..m |-> IF 1 < i /\ i < m THEN Interpolate(inputData, m, i - 1)
                                         ELSE a2[i]]

\* first statement of the onaudioprocess handler: the session start time is
\* taken from the clock when it is still null
onaudioprocess_Overwrite(a) == [a EXCEPT !.sessionAudioStartTimeMs = a.now]

onaudioprocess(a) ==
  IF a.sessionAudioStartTimeMs = Null
  THEN [a EXCEPT !.sessionAudioStartTimeMs = a.now]
  ELSE a

\* recorder.onaudioprocess: one input block is stamped, resampled and handed
\* to onAudioData.  Without a processor the handler fails on its first
\* line and hands nothing over
AudioProcess(inputData, sourceSampleRate, targetSampleRate) ==
  /\ audio.onaudioprocess
  /\ audio.processor
  /\ audio' = onaudioprocess(audio)
  /\ audioBlock' =
       [inputData |-> inputData, sourceSampleRate |-> sourceSampleRate,
        targetSampleRate |-> targetSampleRate,
        resampledData |-> resampleAudioData(inputData, sourceSampleRate,
                                            targetSampleRate),
        startTime |-> audio'.sessionAudioStartTimeMs]
  /\ UNCHANGED nonAudio

NextResample ==
  \/ InitializeAudioProcessor
  \/ SetupAudioDataProcessor
  \/ \E b \in Blocks, sr \in Rates, tr \in Rates : AudioProcess(b, sr, tr)

ResampleSpec == Init /\ [][NextResample]_vars

\* ------------------------------------------------------- media discovery
\* Fields of the record find, for the findMediaElements call in progress:
\*   pc       "idle", "poll" (at the loop test passed), "wait" (in the
\*            setTimeout promise), "done" (returned)
\*   retries  the argument; i the loop counter
\*   polls    document.querySelectorAll calls; waits: delays completed
\*   active   active elements seen by the last poll
\*   result   length of the returned list

\* the loop test: i < retries, else the final return []
loopTest(f) ==
  IF f.i < f.retries THEN [f EXCEPT !.pc = "poll"]
  ELSE [f EXCEPT !.pc = "done", !.result = 0]

findOthers == <<pubVars, stubbornMode, apiKey, onMessageCallback, worldVars,
                failures, terminalMark, nextFrame, wire, refused, audioBlock,
                audio>>

\* findMediaElements(retries, delay) is called
FindMediaElements(retries) ==
  /\ find.pc \in {"idle", "done"}
  /\ find' = loopTest([pc |-> "idle", retries |-> retries, i |-> 0,
                       polls |-> 0, waits |-> 0, active |-> 0, result |-> 0])
  /\ UNCHANGED findOthers

\* one pass of the loop body up to the return or the await: the document
\* holds n active media elements
FindPoll(n) ==
  /\ find.pc = "poll"
  /\ find' = IF n > 0
             THEN [find EXCEPT !.polls = @ + 1, !.active = n,
                               !.pc = "done", !.result = n]
             ELSE [find EXCEPT !.polls = @ + 1, !.active = 0, !.pc = "wait"]
  /\ UNCHANGED findOthers

\* the delay elapses: i++ and the loop test
FindWait ==
  /\ find.pc = "wait"
  /\ find' = loopTest([find EXCEPT !.waits = @ + 1, !.i = @ + 1])
  /\ UNCHANGED findOthers

NextFind ==
  \/ \E r \in 0..MaxPolls : FindMediaElements(r)
  \/ \E n \in 0..MaxElems : FindPoll(n)
  \/ FindWait

FindSpec == Init /\ [][NextFind]_vars

\* ---------------------------------------------------------- audio engine
\* the recorder delivers a block; the context runs at the highest rate and
\* the target is the base rate
IsAudioProcess == \E b \in Blocks : AudioProcess(b, MaxRate, 1)

NextAudio ==
  \/ InitializeAudioProcessor
  \/ SetupAudioDataProcessor
  \/ ResetSessionStartTime
  \/ Disconnect
  \/ Tick
  \/ IsAudioProcess

AudioSpec == Init /\ [][NextAudio]_vars

\* -------------------------------------------------------------- teardown
\* the audio engine and a client the caller connects once, with every way
\* of shutting either down
NextTeardown ==
  \/ \E n \in 0..MaxElems : \E k \in 0..n : CreateCombinedAudioStream(n, k)
  \/ InitializeAudioProcessor
  \/ SetupAudioDataProcessor
  \/ ResetSessionStartTime
  \/ Disconnect
  \/ \E ok \in BOOLEAN : PubConnect(ok)
  \/ \E s \in Sockets : SocketOpen(s)
  \/ \E s \in Sockets : SocketFail(s)
  \/ \E s \in Sockets, e \in BOOLEAN : SocketClosed(s, e)
  \/ \E t \in timers, ok \in BOOLEAN : TimerFire(t, ok)
  \/ Close
  \/ CloseForReconfigure

TeardownSpec == Init /\ [][NextTeardown]_vars

\* ------------------------------------------------------ reconnect backoff
\* the reconnect timer fires and new WebSocket(...) throws (an API key that
\* is not a valid subprotocol token makes every construction throw)
TimerThrows(t) ==
  /\ t \in timers
  /\ ~isOpen
  /\ retryCount < MaxRetry
  /\ Commit(reconnectTimer(World, t, FALSE))
  /\ UNCHANGED <<pubVars, stubbornMode, apiKey, onMessageCallback, failures,
                 audioVars, terminalMark>>

NextBackoff ==
  \/ \E ok \in BOOLEAN : PubConnect(ok)
  \/ \E t \in timers : TimerThrows(t)
  \/ \E t \in timers, ok \in BOOLEAN : TimerFire(t, ok)
  \/ \E s \in Sockets : SocketOpen(s)
  \/ \E s \in Sockets : SocketFail(s)
  \/ SendAudioData

BackoffSpec == Init /\ [][NextBackoff]_vars

\* ------------------------------------------------------------ properties
Up == isOpen /\ isServerReady

\* C1: once close() has returned and no connectToDeepgram call follows, no
\* reconnect timer is pending, no new socket exists and the session id is
\* null.
C1_CloseIsTerminal ==
  terminalMark >= 0 =>
    /\ timers = {}
    /\ NumSockets = terminalMark
    /\ currentUid = Null

\* C2: closeForReconfigure() leaves no reconnect timer pending, and no error
\* or close event of a socket it closed schedules a reconnect.
C2_ReconfigureNoReconnect ==
  /\ [][CloseForReconfigure => timers' = {}]_vars
  /\ [](reconfClosed \cap schedBy = {})

\* C3: at most one reconnect timer is pending in every reachable state.
C3_AtMostOneTimer == Cardinality(timers) <= 1

C3_Witness == guardHit /\ Cardinality(timers) = 1 /\ reconnectInterval \in timers

\* C4: in resilient mode without close()/closeForReconfigure(), every
\* unexpected error, close or failed construction is followed by a state
\* with an open socket and Ready.
C4_EventuallyReady == (stubbornMode /\ needReconnect) ~> Up

\* C5: a block passed to sendAudioData while the socket is missing or not
\* OPEN is refused, leaves client and sockets unchanged, and is never
\* written to any socket afterwards.
C5_ClosedSendRefused ==
  /\ [][SendAudioData /\ ~isOpen =>
          /\ refused' = refused \cup {nextFrame}
          /\ wire' = wire
          /\ UNCHANGED <<clientVars, readyState, timers>>]_vars
  /\ [](\A p \in wire : p[2] \notin refused)

C5_Witness == refused # {} /\ wire = {} /\ isOpen /\ NumSockets >= 2

RecIds == 1..Len(received)
EmittedIds == {e.id : e \in emitted}
IsFinalSegment(id) == received[id].segment /\ received[id].final
Quiet == bindingCalls = <<>> /\ xaddQueue = <<>>

\* C6 (as claimed): once nothing is in flight, every finalized, non-empty
\* segment received is in the durable log exactly once.
C6_ExactlyOnceAppend ==
  Quiet => \A id \in RecIds : IsFinalSegment(id) => Count(stream, id) = 1

\* C6 (amended): a finalized, non-empty segment is appended at most once;
\* exactly once when pushToRedis ran for it with the log connection open and
\* the append was accepted, and not at all when the connection was not open
\* or the append was rejected.
C6_AtMostOnceAppend ==
  \A id \in RecIds : IsFinalSegment(id) =>
    /\ Count(stream, id) <= 1
    /\ id \in handledClosed \cup rejected => Count(stream, id) = 0
    /\ (id \in handledOpen /\ id \notin rejected /\ Count(xaddQueue, id) = 0)
         => Count(stream, id) = 1

C6_Witness ==
  \E i, j \in RecIds :
    /\ IsFinalSegment(i) /\ i \in rejected
    /\ IsFinalSegment(j) /\ j \in handledOpen /\ Count(stream, j) = 1

\* C7: each message causes at most one XADD and at most one log entry; a
\* message whose publish was skipped or rejected is in no queue and is never
\* appended.
C7_AtMostOnceDelivery ==
  \A id \in MsgIds :
    /\ attempts[id] <= 1
    /\ Count(stream, id) <= 1
    /\ id \in rejected \cup handledClosed =>
         /\ Count(bindingCalls, id) = 0
         /\ Count(xaddQueue, id) = 0
         /\ Count(stream, id) = 0

C7_Witness ==
  /\ Quiet
  /\ \E i, j \in RecIds : i \in rejected /\ j \in handledClosed

\* C8: two log entries of messages that arrived on the same connection are
\* in the order in which the provider emitted the messages.
C8_FifoWithinSession ==
  \A i, j \in 1..Len(stream) :
    (i < j /\ received[stream[i]].src = received[stream[j]].src)
      => stream[i] < stream[j]

C8_Witness ==
  /\ Len(stream) = 2
  /\ received[stream[1]].src = received[stream[2]].src
  /\ received[stream[1]].src # Null

\* C9: the publish path runs, and the log holds an entry, only for messages
\* with is_final true; an interim segment is handed to onMessage.
C9_OnlyFinalPublished ==
  \A id \in RecIds :
    /\ (id \in pushed \/ attempts[id] > 0 \/ Count(stream, id) > 0)
         => received[id].final
    /\ (received[id].segment /\ ~received[id].final) => id \in EmittedIds

C9_Witness ==
  \E i, j \in RecIds :
    /\ received[i].segment /\ ~received[i].final
    /\ i \in EmittedIds /\ i \notin pushed
    /\ IsFinalSegment(j) /\ Count(stream, j) = 1

\* C10: a message without channel, alternatives or non-blank transcript is
\* neither handed to onMessage nor published, final or not.
C10_BlankDropped ==
  \A id \in RecIds :
    received[id].blank => id \notin EmittedIds /\ id \notin pushed

C10_Witness ==
  \E i, j \in RecIds :
    /\ received[i].blank /\ received[i].final
    /\ received[j].blank /\ ~received[j].final

\* C11: every socket open event, in either mode, hands exactly one
\* SERVER_READY event to the consumer (and nothing else does); when it is
\* handed over isReady() is true and getCurrentUid() is a non-null session
\* id that no earlier open produced.
C11_ReadyOnOpen ==
  [][LET opened == {s \in Sockets : readyState[s] = CONNECTING
                                     /\ readyState'[s] = OPEN}
     IN  IF opened = {}
         THEN serverReady' = serverReady
         ELSE /\ Len(serverReady') = Len(serverReady) + 1
              /\ SubSeq(serverReady', 1, Len(serverReady)) = serverReady
              /\ LET e == serverReady'[Len(serverReady')]
                 IN  /\ opened = {e.sock}
                     /\ e.isReady /\ isServerReady'
                     /\ e.uid # Null /\ e.uid = currentUid'
                     /\ \A i \in 1..Len(serverReady) : serverReady[i].uid # e.uid
                     /\ \A x \in Sockets : sockUid[x] # e.uid
                     /\ e.uid # currentUid /\ e.uid # connection]_vars

C11_Witness ==
  /\ Len(serverReady) >= 2
  /\ serverReady[1].sock # serverReady[2].sock
  /\ serverReady[2].uid = currentUid
  /\ isServerReady

\* C12 (as claimed): in resilient mode scheduling a reconnect adds one to the
\* attempt counter; from zero attempts and no pending timer an unexpected
\* close leaves one timer of 2000 ms pending and the counter at 1.
C12_CountOnSchedule ==
  [][(stubbornMode /\ timers = {} /\ timers' # {}) =>
        /\ Cardinality(timers') = 1
        /\ retryCount' = retryCount + 1
        /\ (retryCount = 0 => timerDelay' = 2000)]_vars

\* C13: in resilient mode, right after any socket open event is handled the
\* attempt counter is 0 and no reconnect timer is pending, whatever they
\* were before.
C13_OpenResets ==
  [][\A s \in Sockets :
       (stubbornMode /\ readyState[s] = CONNECTING /\ readyState'[s] = OPEN)
         => /\ retryCount' = 0
            /\ timers' = {}
            /\ reconnectInterval' = Null]_vars

C13_Witness ==
  /\ stubbornMode /\ openCleared
  /\ retryCount = 0 /\ timers = {}
  /\ \E s \in Sockets : readyState[s] = OPEN /\ sockUid[s] = currentUid

\* C14: a reconnect timer scheduled at attempt count n has delay
\* min(2000 * 1.5^min(n,10), 10000) ms: 2000, 3000, 4500, 6750 for n = 0..3
\* and 10000 for every n >= 4; never below 2000, never above 10000.
C14_BackoffDelay ==
  timers # {} =>
    /\ timerDelay = (CASE retryCount = 0 -> 2000
                       [] retryCount = 1 -> 3000
                       [] retryCount = 2 -> 4500
                       [] retryCount = 3 -> 6750
                       [] OTHER          -> 10000)
    /\ timerDelay >= 2000
    /\ timerDelay <= 10000

C14_Witness == timers # {} /\ retryCount > 10 /\ timerDelay = 10000

\* C15: in simple mode no reconnect timer is ever pending, only a
\* connectToDeepgram call creates a socket, a failed construction makes the
\* call resolve to null, and a socket's error and close events change
\* nothing in the client.
C15_SimpleNoRecovery ==
  /\ [](~stubbornMode => timers = {} /\ reconnectInterval = Null)
  /\ [][~stubbornMode =>
          /\ NumSockets' # NumSockets => \E ok \in BOOLEAN : ConnectToDeepgram(ok)
          /\ (apiKey /\ ConnectToDeepgram(FALSE)) =>
                returned' = Null /\ NumSockets' = NumSockets
          /\ (\E s \in Sockets : readyState[s] # CLOSED /\ readyState'[s] = CLOSED)
                => UNCHANGED <<clientVars, timers>>]_vars

C15_Witness ==
  /\ ~stubbornMode /\ apiKey
  /\ returned = Null /\ failures > 0
  /\ \E s \in Sockets : readyState[s] = CLOSED /\ sockUid[s] # Null
  /\ timers = {}

\* C16: at most one socket created by the client is CONNECTING or OPEN at
\* any time.
C16_SingleLiveSocket ==
  Cardinality({s \in Sockets : readyState[s] \in {CONNECTING, OPEN}}) <= 1

\* C17: a failed publish (XADD rejected, or Redis not open) leaves the
\* client's socket, readiness, session id, attempt counter and timer as they
\* were and schedules nothing; messages that arrive after it are still
\* processed, and published when their own publish succeeds.
C17_PublishFailureIsolated ==
  /\ [][(rejected' # rejected \/ handledClosed' # handledClosed) =>
          UNCHANGED <<clientVars, readyState, timers, schedBy>>]_vars
  /\ [](\A i, j \in RecIds :
          (i < j /\ i \in rejected \cup handledClosed) =>
            /\ received[j].segment => j \in EmittedIds
            /\ (IsFinalSegment(j) /\ j \in handledOpen /\ j \notin rejected
                  /\ Count(xaddQueue, j) = 0) => Count(stream, j) = 1)

C17_Witness ==
  \E i, j \in RecIds :
    /\ i < j /\ i \in rejected \cup handledClosed
    /\ received[j].src # Null /\ received[j].src = received[i].src
    /\ readyState[received[j].src] = OPEN /\ isServerReady
    /\ Count(stream, j) = 1

\* C18: once nothing is in flight, every finalized segment that is not in
\* the durable log has an error written to a log for it.
C18_DropIsLogged ==
  Quiet => \A id \in RecIds :
             (IsFinalSegment(id) /\ Count(stream, id) = 0) => id \in logged

\* C19: a provider message that cannot be parsed or lacks a field a segment
\* is built from is neither emitted nor published, leaves the client and
\* its sockets as they were, and a later well-formed message of the same
\* socket is still emitted.
C19_MalformedAbsorbed ==
  /\ [](\A id \in RecIds :
          received[id].malformed => id \notin EmittedIds /\ id \notin pushed)
  /\ [][(Len(received') > Len(received)
          /\ received'[Len(received')].malformed)
            => UNCHANGED <<clientVars, readyState, timers>>]_vars
  /\ [](\A i, j \in RecIds :
          (i < j /\ received[i].malformed /\ received[j].segment
             /\ received[i].src = received[j].src) => j \in EmittedIds)

\* m is round(n * target / source): m - 1/2 <= n * target / source < m + 1/2
IsRounded(m, n, sourceSampleRate, targetSampleRate) ==
  /\ (2 * m - 1) * sourceSampleRate <= 2 * n * targetSampleRate
  /\ 2 * n * targetSampleRate < (2 * m + 1) * sourceSampleRate

\* C20 (as claimed): the resampled block has length
\* round(n * target / source), its first sample is the first input sample
\* and its last sample the last input sample, also when that length is 0
\* or 1.
C20_EndpointsPreserved ==
  LET x == audioBlock.inputData
      y == audioBlock.resampledData
  IN  x # <<>> =>
        /\ IsRounded(Len(y), Len(x), audioBlock.sourceSampleRate,
                     audioBlock.targetSampleRate)
        /\ y # <<>>
        /\ y[1] = <<x[1], 1>>
        /\ y[Len(y)] = <<x[Len(x)], 1>>

\* C20 (amended): the length is round(n * target / source); with two or
\* more output samples the first and last equal the first and last input
\* samples; a single output sample equals the last input sample; with
\* length 0 the block is empty.
C20_EndpointsWhenRoom ==
  LET x == audioBlock.inputData
      y == audioBlock.resampledData
  IN  x # <<>> =>
        /\ IsRounded(Len(y), Len(x), audioBlock.sourceSampleRate,
                     audioBlock.targetSampleRate)
        /\ Len(y) >= 2 => y[1] = <<x[1], 1>> /\ y[Len(y)] = <<x[Len(x)], 1>>
        /\ Len(y) = 1 => y[1] = <<x[Len(x)], 1>>

C20_Witness ==
  /\ Len(audioBlock.resampledData) = 1
  /\ Len(audioBlock.inputData) >= 2
  /\ audioBlock.inputData[1] # audioBlock.inputData[Len(audioBlock.inputData)]

\* close() calls socket.close() exactly when this.socket is set
closesSocket(w) == w.socket # Null

\* C21: from every state, the first included, disconnect() and close() raise
\* nothing, and a second call right after the first changes nothing: the
\* audio context is not closed again and socket.close() is not called again.
C21_TeardownIdempotent ==
  /\ ~disconnect(audio).threw
  /\ disconnect(disconnect(audio)) = disconnect(audio)
  /\ disconnect(disconnect(audio)).closeCalls = disconnect(audio).closeCalls
  /\ close(close(World)) = close(World)
  /\ ~closesSocket(close(World))

C21_Witness ==
  /\ audio.closeCalls >= 1 /\ ~audio.processor /\ audio.audioContext = "closed"
  /\ terminalMark >= 1 /\ socket = Null
  /\ \E s \in Sockets : readyState[s] = CLOSING

\* C22: a disconnect() call made while the engine has an audio context
\* leaves that context closed and no graph node connected, and no
\* createCombinedAudioStream or initializeAudioProcessor call ever builds
\* its graph on a closed audio context.
C22_DisconnectReleasesAll ==
  /\ [][(Disconnect /\ audio.audioContext # "null")
          => /\ audio'.audioContext = "closed"
             /\ audio'.graphs = 0
             /\ ~audio'.sources]_vars
  /\ [](~audio.onClosed)

\* C23: only a processed audio block makes the session start time non-null;
\* a block processed while it is null sets it to the current time, a block
\* processed while it is set leaves it unchanged; resetSessionStartTime()
\* makes it null; every block handed to onAudioData carries the non-null
\* session start time.
C23_LazyStartTime ==
  /\ [][~IsAudioProcess
          => (getSessionAudioStartTime(audio') # Null
                => getSessionAudioStartTime(audio')
                     = getSessionAudioStartTime(audio))]_vars
  /\ [][IsAudioProcess
          => /\ getSessionAudioStartTime(audio')
                  = IF getSessionAudioStartTime(audio) = Null
                    THEN audio.now
                    ELSE getSessionAudioStartTime(audio)
             /\ audioBlock'.startTime = getSessionAudioStartTime(audio')
             /\ audioBlock'.startTime # Null]_vars
  /\ [][ResetSessionStartTime
          => getSessionAudioStartTime(audio') = Null]_vars
  /\ [][audioBlock' # audioBlock => IsAudioProcess]_vars

\* a block processed earlier fixed the start time, and time has passed
C23_Witness ==
  /\ getSessionAudioStartTime(audio) = 1
  /\ audio.now = 2
  /\ audioBlock.startTime = 1
  /\ audioBlock.inputData # <<>>

\* C24: every segment handed to the consumer or to the publish function has
\* an end offset that is a number not below its start offset.
C24_EndNotBeforeStart ==
  \A id \in 1..Len(received) :
    (id \in pushed \/ \E e \in emitted : e.id = id)
      => /\ ~received[id].end.nan
         /\ received[id].end.v >= received[id].start.v

\* C25: a returned findMediaElements call polled at most retries times,
\* returned the active set of its last poll if that poll found any, else
\* the empty list, and waited only between two polls: one wait fewer than
\* polls.
C25_PollsAndWaits ==
  find.pc = "done"
    => /\ find.polls <= find.retries
       /\ find.result = find.active
       /\ find.result = 0 => find.polls = find.retries
       /\ find.polls >= 1 => find.waits = find.polls - 1
       /\ find.polls = 0 => find.waits = 0

\* an error or close event of socket s while the client holds another socket
StaleEvent(s) ==
  /\ socket # Null /\ socket # s
  /\ \/ SocketFail(s)
     \/ SocketServerClose(s)
     \/ \E e \in BOOLEAN : SocketClosed(s, e)

\* C26: an error or close event of a socket that is not the client's current
\* socket leaves the socket reference and the readiness as they were, and a
\* current socket that is open stays reachable by sendAudioData.
C26_StaleEventIgnored ==
  [][\A s \in Sockets :
       StaleEvent(s)
         => /\ socket' = socket
            /\ isServerReady' = isServerReady
            /\ readyState'[socket] = OPEN
                 => sendAudioData(socket', readyState')]_vars

\* C27: in resilient mode, an unexpected close of a socket created after the
\* most recent closeForReconfigure() call leaves a reconnect timer pending.
C27_FlagOnlyForClosedSocket ==
  [][\A s \in Sockets :
       (stubbornMode /\ s > reconfMark
          /\ (SocketFail(s) \/ SocketServerClose(s)))
         => timers' # {}]_vars

\* C28: without setServerReady calls, isReady() is true only while the
\* client holds an OPEN socket.
C28_ReadyImpliesOpen == isReady => isOpen

\* C29: every segment event handed to the consumer carries a session id
\* that is not null and is the id minted when the socket that received the
\* message opened.
C29_UidOfReceivingSocket ==
  \A e \in emitted :
    /\ e.uid # Null
    /\ e.uid = sockUid[received[e.id].src]

\* C30: every final message with a text a segment is built from leads to
\* exactly one publish call, whether the onMessage callback returned or
\* raised: in the browser one call of the exposed publish function when it
\* exists, in Node one pushToRedis call.
C30_CallbackErrorKeepsPublish ==
  \A id \in RecIds :
    (IsFinalSegment(id) /\ (received[id].src = Null \/ pushFnDefined))
      => id \in pushed

TypeOK ==
  /\ socket \in Sockets \cup {Null}
  /\ readyState \in [Sockets -> {NONE, CONNECTING, OPEN, CLOSING, CLOSED}]
  /\ retryCount \in Nat
  /\ terminalMark \in -1..MaxSockets
====
